---- MODULE Spec2Model ----
(***************************************************************************)
(* The TypeScript indexer of kythe/typescript/indexer.ts as a state        *)
(* machine: index() checks the program's diagnostics and then indexes      *)
(* each requested path with a fresh Vistor; a Vistor walks the syntax tree *)
(* of one source file and emits Kythe entries to the sink.                 *)
(*                                                                         *)
(* The recursive descent of visit()/visitType() is the variable `stack`:   *)
(* the pending calls in the order the recursion runs them.  One action is  *)
(* one case of the dispatch, with every emit and every name lookup the     *)
(* handler makes before it recurses.  A thrown Error is the flag `thrown`  *)
(* of the machine record: nothing after the throw executes.                *)
(*                                                                         *)
(* console.warn output is not part of the entry stream and is not          *)
(* modelled.                                                               *)
(***************************************************************************)
EXTENDS Integers, Sequences, FiniteSets, TLC

\* Bounds of the inputs of index().
MaxPaths == 2
MaxDiags == 2

\* enum TSNamespace
TYPE == 0
VALUE == 1
TSNamespace == {TYPE, VALUE}

\* A slot of the symbolNames tuple that is not filled; an undefined reference.
Null == [null |-> TRUE]
NoSymbol == ""
Undefined == 0

--------------------------------------------------------------------------
(***************************************************************************)
(* The input: checked programs.  A ts.Node is a record; its fields are the *)
(* ones the indexer reads.  `children` is the order of ts.forEachChild;    *)
(* `sym` is what typeChecker.getSymbolAtLocation returns for the node;     *)
(* `pos` is the full start of the node (leading trivia included), `start`  *)
(* is getStart() and `end` is getEnd().  Node ids index the table Nodes.   *)
(***************************************************************************)
Node(kind, parent, children, pos, start, end) ==
  [kind |-> kind, parent |-> parent, children |-> children,
   pos |-> pos, start |-> start, end |-> end,
   name |-> Undefined, text |-> "", sym |-> NoSymbol,
   parameters |-> <<>>, body |-> Undefined, members |-> <<>>,
   type |-> Undefined, initializer |-> Undefined,
   exportClause |-> Undefined, elements |-> <<>>, moduleSpecifier |-> Undefined]

NodeTable ==
  <<
  (* simple.ts:  function f(x: number) { x; }  export {f}; *)
  (*   1 *) Node("SourceFile", 0, <<2, 10, 14>>, 0, 0, 41),
  (*   2 *) [Node("FunctionDeclaration", 1, <<3, 4, 7>>, 0, 0, 28) EXCEPT !.name = 3, !.parameters = <<4>>, !.body = 7],
  (*   3 *) [Node("Identifier", 2, <<>>, 8, 9, 10) EXCEPT !.text = "f", !.sym = "simple.f"],
  (*   4 *) [Node("Parameter", 2, <<5, 6>>, 11, 11, 20) EXCEPT !.name = 5, !.type = 6],
  (*   5 *) [Node("Identifier", 4, <<>>, 11, 11, 12) EXCEPT !.text = "x", !.sym = "simple.x"],
  (*   6 *) [Node("NumberKeyword", 4, <<>>, 13, 14, 20) EXCEPT !.text = "number"],
  (*   7 *) Node("Block", 2, <<8>>, 21, 22, 28),
  (*   8 *) Node("ExpressionStatement", 7, <<9>>, 23, 24, 26),
  (*   9 *) [Node("Identifier", 8, <<>>, 23, 24, 25) EXCEPT !.text = "x", !.sym = "simple.x"],
  (*  10 *) [Node("ExportDeclaration", 1, <<11>>, 28, 29, 40) EXCEPT !.exportClause = 11],
  (*  11 *) [Node("NamedExports", 10, <<12>>, 35, 36, 39) EXCEPT !.elements = <<12>>],
  (*  12 *) [Node("ExportSpecifier", 11, <<13>>, 37, 37, 38) EXCEPT !.name = 13],
  (*  13 *) [Node("Identifier", 12, <<>>, 37, 37, 38) EXCEPT !.text = "f", !.sym = "simple.f"],
  (*  14 *) Node("EndOfFileToken", 1, <<>>, 40, 41, 41),
  (* blocks.ts:  function f() { { let a = 1; a; } { let b = 2; b; } } *)
  (*  15 *) Node("SourceFile", 0, <<16, 35>>, 0, 0, 53),
  (*  16 *) [Node("FunctionDeclaration", 15, <<17, 18>>, 0, 0, 52) EXCEPT !.name = 17, !.body = 18],
  (*  17 *) [Node("Identifier", 16, <<>>, 8, 9, 10) EXCEPT !.text = "f", !.sym = "blocks.f"],
  (*  18 *) Node("Block", 16, <<19, 27>>, 12, 13, 52),
  (*  19 *) Node("Block", 18, <<20, 25>>, 14, 15, 32),
  (*  20 *) Node("VariableStatement", 19, <<21>>, 16, 17, 27),
  (*  21 *) Node("VariableDeclarationList", 20, <<22>>, 16, 17, 26),
  (*  22 *) [Node("VariableDeclaration", 21, <<23, 24>>, 20, 21, 26) EXCEPT !.name = 23, !.initializer = 24],
  (*  23 *) [Node("Identifier", 22, <<>>, 20, 21, 22) EXCEPT !.text = "a", !.sym = "blocks.a"],
  (*  24 *) [Node("NumericLiteral", 22, <<>>, 24, 25, 26) EXCEPT !.text = "1"],
  (*  25 *) Node("ExpressionStatement", 19, <<26>>, 27, 28, 30),
  (*  26 *) [Node("Identifier", 25, <<>>, 27, 28, 29) EXCEPT !.text = "a", !.sym = "blocks.a"],
  (*  27 *) Node("Block", 18, <<28, 33>>, 32, 33, 50),
  (*  28 *) Node("VariableStatement", 27, <<29>>, 34, 35, 45),
  (*  29 *) Node("VariableDeclarationList", 28, <<30>>, 34, 35, 44),
  (*  30 *) [Node("VariableDeclaration", 29, <<31, 32>>, 38, 39, 44) EXCEPT !.name = 31, !.initializer = 32],
  (*  31 *) [Node("Identifier", 30, <<>>, 38, 39, 40) EXCEPT !.text = "b", !.sym = "blocks.b"],
  (*  32 *) [Node("NumericLiteral", 30, <<>>, 42, 43, 44) EXCEPT !.text = "2"],
  (*  33 *) Node("ExpressionStatement", 27, <<34>>, 45, 46, 48),
  (*  34 *) [Node("Identifier", 33, <<>>, 45, 46, 47) EXCEPT !.text = "b", !.sym = "blocks.b"],
  (*  35 *) Node("EndOfFileToken", 15, <<>>, 52, 53, 53),
  (* scoped.ts:  { class C {} let y: C = new C(); let z: D; class D {} } *)
  (*  36 *) Node("SourceFile", 0, <<37, 56>>, 0, 0, 56),
  (*  37 *) Node("Block", 36, <<38, 40, 48, 54>>, 0, 0, 55),
  (*  38 *) [Node("ClassDeclaration", 37, <<39>>, 1, 2, 12) EXCEPT !.name = 39],
  (*  39 *) [Node("Identifier", 38, <<>>, 7, 8, 9) EXCEPT !.text = "C", !.sym = "scoped.C"],
  (*  40 *) Node("VariableStatement", 37, <<41>>, 12, 13, 32),
  (*  41 *) Node("VariableDeclarationList", 40, <<42>>, 12, 13, 31),
  (*  42 *) [Node("VariableDeclaration", 41, <<43, 44, 46>>, 16, 17, 31) EXCEPT !.name = 43, !.type = 44, !.initializer = 46],
  (*  43 *) [Node("Identifier", 42, <<>>, 16, 17, 18) EXCEPT !.text = "y", !.sym = "scoped.y"],
  (*  44 *) Node("TypeReference", 42, <<45>>, 19, 20, 21),
  (*  45 *) [Node("Identifier", 44, <<>>, 19, 20, 21) EXCEPT !.text = "C", !.sym = "scoped.C"],
  (*  46 *) Node("NewExpression", 42, <<47>>, 23, 24, 31),
  (*  47 *) [Node("Identifier", 46, <<>>, 27, 28, 29) EXCEPT !.text = "C", !.sym = "scoped.C"],
  (*  48 *) Node("VariableStatement", 37, <<49>>, 32, 33, 42),
  (*  49 *) Node("VariableDeclarationList", 48, <<50>>, 32, 33, 41),
  (*  50 *) [Node("VariableDeclaration", 49, <<51, 52>>, 36, 37, 41) EXCEPT !.name = 51, !.type = 52],
  (*  51 *) [Node("Identifier", 50, <<>>, 36, 37, 38) EXCEPT !.text = "z", !.sym = "scoped.z"],
  (*  52 *) Node("TypeReference", 50, <<53>>, 39, 40, 41),
  (*  53 *) [Node("Identifier", 52, <<>>, 39, 40, 41) EXCEPT !.text = "D", !.sym = "scoped.D"],
  (*  54 *) [Node("ClassDeclaration", 37, <<55>>, 42, 43, 53) EXCEPT !.name = 55],
  (*  55 *) [Node("Identifier", 54, <<>>, 48, 49, 50) EXCEPT !.text = "D", !.sym = "scoped.D"],
  (*  56 *) Node("EndOfFileToken", 36, <<>>, 55, 56, 56),
  (* types.ts:  type A = number; type B = A; interface I { p: A; } *)
  (*  57 *) Node("SourceFile", 0, <<58, 61, 65, 71>>, 0, 0, 51),
  (*  58 *) [Node("TypeAliasDeclaration", 57, <<59, 60>>, 0, 0, 16) EXCEPT !.name = 59, !.type = 60],
  (*  59 *) [Node("Identifier", 58, <<>>, 4, 5, 6) EXCEPT !.text = "A", !.sym = "types.A"],
  (*  60 *) [Node("NumberKeyword", 58, <<>>, 8, 9, 15) EXCEPT !.text = "number"],
  (*  61 *) [Node("TypeAliasDeclaration", 57, <<62, 63>>, 16, 17, 28) EXCEPT !.name = 62, !.type = 63],
  (*  62 *) [Node("Identifier", 61, <<>>, 21, 22, 23) EXCEPT !.text = "B", !.sym = "types.B"],
  (*  63 *) Node("TypeReference", 61, <<64>>, 25, 26, 27),
  (*  64 *) [Node("Identifier", 63, <<>>, 25, 26, 27) EXCEPT !.text = "A", !.sym = "types.A"],
  (*  65 *) [Node("InterfaceDeclaration", 57, <<66, 67>>, 28, 29, 50) EXCEPT !.name = 66, !.members = <<67>>],
  (*  66 *) [Node("Identifier", 65, <<>>, 38, 39, 40) EXCEPT !.text = "I", !.sym = "types.I"],
  (*  67 *) [Node("PropertySignature", 65, <<68, 69>>, 42, 43, 48) EXCEPT !.name = 68, !.type = 69],
  (*  68 *) [Node("Identifier", 67, <<>>, 42, 43, 44) EXCEPT !.text = "p", !.sym = "types.p"],
  (*  69 *) Node("TypeReference", 67, <<70>>, 45, 46, 47),
  (*  70 *) [Node("Identifier", 69, <<>>, 45, 46, 47) EXCEPT !.text = "A", !.sym = "types.A"],
  (*  71 *) Node("EndOfFileToken", 57, <<>>, 50, 51, 51),
  (* nested.ts:  function f(x) { function g(a = x) { a; } } *)
  (*  72 *) Node("SourceFile", 0, <<73, 86>>, 0, 0, 43),
  (*  73 *) [Node("FunctionDeclaration", 72, <<74, 75, 77>>, 0, 0, 42) EXCEPT !.name = 74, !.parameters = <<75>>, !.body = 77],
  (*  74 *) [Node("Identifier", 73, <<>>, 8, 9, 10) EXCEPT !.text = "f", !.sym = "nested.f"],
  (*  75 *) [Node("Parameter", 73, <<76>>, 11, 11, 12) EXCEPT !.name = 76],
  (*  76 *) [Node("Identifier", 75, <<>>, 11, 11, 12) EXCEPT !.text = "x", !.sym = "nested.x"],
  (*  77 *) Node("Block", 73, <<78>>, 13, 14, 42),
  (*  78 *) [Node("FunctionDeclaration", 77, <<79, 80, 83>>, 15, 16, 40) EXCEPT !.name = 79, !.parameters = <<80>>, !.body = 83],
  (*  79 *) [Node("Identifier", 78, <<>>, 24, 25, 26) EXCEPT !.text = "g", !.sym = "nested.g"],
  (*  80 *) [Node("Parameter", 78, <<81, 82>>, 27, 27, 32) EXCEPT !.name = 81, !.initializer = 82],
  (*  81 *) [Node("Identifier", 80, <<>>, 27, 27, 28) EXCEPT !.text = "a", !.sym = "nested.a"],
  (*  82 *) [Node("Identifier", 80, <<>>, 30, 31, 32) EXCEPT !.text = "x", !.sym = "nested.x"],
  (*  83 *) Node("Block", 78, <<84>>, 33, 34, 40),
  (*  84 *) Node("ExpressionStatement", 83, <<85>>, 35, 36, 38),
  (*  85 *) [Node("Identifier", 84, <<>>, 35, 36, 37) EXCEPT !.text = "a", !.sym = "nested.a"],
  (*  86 *) Node("EndOfFileToken", 72, <<>>, 42, 43, 43),
  (* members.ts:  class K { "m"(p) { p; } n = 1; }  export default function (q) { q; } *)
  (*  87 *) Node("SourceFile", 0, <<88, 100, 108>>, 0, 0, 68),
  (*  88 *) [Node("ClassDeclaration", 87, <<89, 90, 97>>, 0, 0, 32) EXCEPT !.name = 89, !.members = <<90, 97>>],
  (*  89 *) [Node("Identifier", 88, <<>>, 5, 6, 7) EXCEPT !.text = "K", !.sym = "members.K"],
  (*  90 *) [Node("MethodDeclaration", 88, <<91, 92, 94>>, 9, 10, 23) EXCEPT !.name = 91, !.parameters = <<92>>, !.body = 94],
  (*  91 *) [Node("StringLiteral", 90, <<>>, 9, 10, 13) EXCEPT !.text = "m", !.sym = "members.m"],
  (*  92 *) [Node("Parameter", 90, <<93>>, 14, 14, 15) EXCEPT !.name = 93],
  (*  93 *) [Node("Identifier", 92, <<>>, 14, 14, 15) EXCEPT !.text = "p", !.sym = "members.p"],
  (*  94 *) Node("Block", 90, <<95>>, 16, 17, 23),
  (*  95 *) Node("ExpressionStatement", 94, <<96>>, 18, 19, 21),
  (*  96 *) [Node("Identifier", 95, <<>>, 18, 19, 20) EXCEPT !.text = "p", !.sym = "members.p"],
  (*  97 *) [Node("PropertyDeclaration", 88, <<98, 99>>, 23, 24, 30) EXCEPT !.name = 98, !.initializer = 99],
  (*  98 *) [Node("Identifier", 97, <<>>, 23, 24, 25) EXCEPT !.text = "n", !.sym = "members.n"],
  (*  99 *) [Node("NumericLiteral", 97, <<>>, 27, 28, 29) EXCEPT !.text = "1"],
  (* 100 *) [Node("FunctionDeclaration", 87, <<101, 102, 103, 105>>, 32, 33, 67) EXCEPT !.parameters = <<103>>, !.body = 105],
  (* 101 *) [Node("ExportKeyword", 100, <<>>, 32, 33, 39) EXCEPT !.text = "export"],
  (* 102 *) [Node("DefaultKeyword", 100, <<>>, 39, 40, 47) EXCEPT !.text = "default"],
  (* 103 *) [Node("Parameter", 100, <<104>>, 58, 58, 59) EXCEPT !.name = 104],
  (* 104 *) [Node("Identifier", 103, <<>>, 58, 58, 59) EXCEPT !.text = "q", !.sym = "members.q"],
  (* 105 *) Node("Block", 100, <<106>>, 60, 61, 67),
  (* 106 *) Node("ExpressionStatement", 105, <<107>>, 62, 63, 65),
  (* 107 *) [Node("Identifier", 106, <<>>, 62, 63, 64) EXCEPT !.text = "q", !.sym = "members.q"],
  (* 108 *) Node("EndOfFileToken", 87, <<>>, 67, 68, 68),
  (* pattern.ts:  let [a, b] = [1, 2]; a; b; a; *)
  (* 109 *) Node("SourceFile", 0, <<110, 121, 123, 125, 127>>, 0, 0, 30),
  (* 110 *) Node("VariableStatement", 109, <<111>>, 0, 0, 20),
  (* 111 *) Node("VariableDeclarationList", 110, <<112>>, 0, 0, 19),
  (* 112 *) [Node("VariableDeclaration", 111, <<113, 118>>, 3, 4, 19) EXCEPT !.name = 113, !.initializer = 118],
  (* 113 *) [Node("ArrayBindingPattern", 112, <<114, 116>>, 3, 4, 10) EXCEPT !.elements = <<114, 116>>],
  (* 114 *) [Node("BindingElement", 113, <<115>>, 5, 5, 6) EXCEPT !.name = 115],
  (* 115 *) [Node("Identifier", 114, <<>>, 5, 5, 6) EXCEPT !.text = "a", !.sym = "pattern.a"],
  (* 116 *) [Node("BindingElement", 113, <<117>>, 7, 8, 9) EXCEPT !.name = 117],
  (* 117 *) [Node("Identifier", 116, <<>>, 7, 8, 9) EXCEPT !.text = "b", !.sym = "pattern.b"],
  (* 118 *) Node("ArrayLiteralExpression", 112, <<119, 120>>, 12, 13, 19),
  (* 119 *) [Node("NumericLiteral", 118, <<>>, 14, 14, 15) EXCEPT !.text = "1"],
  (* 120 *) [Node("NumericLiteral", 118, <<>>, 16, 17, 18) EXCEPT !.text = "2"],
  (* 121 *) Node("ExpressionStatement", 109, <<122>>, 20, 21, 23),
  (* 122 *) [Node("Identifier", 121, <<>>, 20, 21, 22) EXCEPT !.text = "a", !.sym = "pattern.a"],
  (* 123 *) Node("ExpressionStatement", 109, <<124>>, 23, 24, 26),
  (* 124 *) [Node("Identifier", 123, <<>>, 23, 24, 25) EXCEPT !.text = "b", !.sym = "pattern.b"],
  (* 125 *) Node("ExpressionStatement", 109, <<126>>, 26, 27, 29),
  (* 126 *) [Node("Identifier", 125, <<>>, 26, 27, 28) EXCEPT !.text = "a", !.sym = "pattern.a"],
  (* 127 *) Node("EndOfFileToken", 109, <<>>, 29, 30, 30),
  (* undeclared.ts:  let o: any; o.foo; undefined; let u: typeof undefined; *)
  (* 128 *) Node("SourceFile", 0, <<129, 134, 138, 140, 146>>, 0, 0, 55),
  (* 129 *) Node("VariableStatement", 128, <<130>>, 0, 0, 11),
  (* 130 *) Node("VariableDeclarationList", 129, <<131>>, 0, 0, 10),
  (* 131 *) [Node("VariableDeclaration", 130, <<132, 133>>, 3, 4, 10) EXCEPT !.name = 132, !.type = 133],
  (* 132 *) [Node("Identifier", 131, <<>>, 3, 4, 5) EXCEPT !.text = "o", !.sym = "undeclared.o"],
  (* 133 *) [Node("AnyKeyword", 131, <<>>, 6, 7, 10) EXCEPT !.text = "any"],
  (* 134 *) Node("ExpressionStatement", 128, <<135>>, 11, 12, 18),
  (* 135 *) [Node("PropertyAccessExpression", 134, <<136, 137>>, 11, 12, 17) EXCEPT !.name = 137],
  (* 136 *) [Node("Identifier", 135, <<>>, 11, 12, 13) EXCEPT !.text = "o", !.sym = "undeclared.o"],
  (* 137 *) [Node("Identifier", 135, <<>>, 14, 14, 17) EXCEPT !.text = "foo"],
  (* 138 *) Node("ExpressionStatement", 128, <<139>>, 18, 19, 29),
  (* 139 *) [Node("Identifier", 138, <<>>, 18, 19, 28) EXCEPT !.text = "undefined", !.sym = "undefined"],
  (* 140 *) Node("VariableStatement", 128, <<141>>, 29, 30, 54),
  (* 141 *) Node("VariableDeclarationList", 140, <<142>>, 29, 30, 53),
  (* 142 *) [Node("VariableDeclaration", 141, <<143, 144>>, 33, 34, 53) EXCEPT !.name = 143, !.type = 144],
  (* 143 *) [Node("Identifier", 142, <<>>, 33, 34, 35) EXCEPT !.text = "u", !.sym = "undeclared.u"],
  (* 144 *) Node("TypeQuery", 142, <<145>>, 36, 37, 53),
  (* 145 *) [Node("Identifier", 144, <<>>, 43, 44, 53) EXCEPT !.text = "undefined", !.sym = "undefined"],
  (* 146 *) Node("EndOfFileToken", 128, <<>>, 54, 55, 55),
  (* record.ts:  class R {}  let r: R = new R(); *)
  (* 147 *) Node("SourceFile", 0, <<148, 150, 158>>, 0, 0, 31),
  (* 148 *) [Node("ClassDeclaration", 147, <<149>>, 0, 0, 10) EXCEPT !.name = 149],
  (* 149 *) [Node("Identifier", 148, <<>>, 5, 6, 7) EXCEPT !.text = "R", !.sym = "record.R"],
  (* 150 *) Node("VariableStatement", 147, <<151>>, 10, 11, 30),
  (* 151 *) Node("VariableDeclarationList", 150, <<152>>, 10, 11, 29),
  (* 152 *) [Node("VariableDeclaration", 151, <<153, 154, 156>>, 14, 15, 29) EXCEPT !.name = 153, !.type = 154, !.initializer = 156],
  (* 153 *) [Node("Identifier", 152, <<>>, 14, 15, 16) EXCEPT !.text = "r", !.sym = "record.r"],
  (* 154 *) Node("TypeReference", 152, <<155>>, 17, 18, 19),
  (* 155 *) [Node("Identifier", 154, <<>>, 17, 18, 19) EXCEPT !.text = "R", !.sym = "record.R"],
  (* 156 *) Node("NewExpression", 152, <<157>>, 21, 22, 29),
  (* 157 *) [Node("Identifier", 156, <<>>, 25, 26, 27) EXCEPT !.text = "R", !.sym = "record.R"],
  (* 158 *) Node("EndOfFileToken", 147, <<>>, 30, 31, 31),
  (* lib/e.ts:  class E {} *)
  (* 159 *) Node("SourceFile", 0, <<160, 162>>, 0, 0, 11),
  (* 160 *) [Node("ClassDeclaration", 159, <<161>>, 0, 0, 10) EXCEPT !.name = 161],
  (* 161 *) [Node("Identifier", 160, <<>>, 5, 6, 7) EXCEPT !.text = "E", !.sym = "pair.E"],
  (* 162 *) Node("EndOfFileToken", 159, <<>>, 10, 11, 11),
  (* use.ts:  let e: E; let w = e as E; *)
  (* 163 *) Node("SourceFile", 0, <<164, 170, 178>>, 0, 0, 26),
  (* 164 *) Node("VariableStatement", 163, <<165>>, 0, 0, 9),
  (* 165 *) Node("VariableDeclarationList", 164, <<166>>, 0, 0, 8),
  (* 166 *) [Node("VariableDeclaration", 165, <<167, 168>>, 3, 4, 8) EXCEPT !.name = 167, !.type = 168],
  (* 167 *) [Node("Identifier", 166, <<>>, 3, 4, 5) EXCEPT !.text = "e", !.sym = "pair.e"],
  (* 168 *) Node("TypeReference", 166, <<169>>, 6, 7, 8),
  (* 169 *) [Node("Identifier", 168, <<>>, 6, 7, 8) EXCEPT !.text = "E", !.sym = "pair.E"],
  (* 170 *) Node("VariableStatement", 163, <<171>>, 9, 10, 25),
  (* 171 *) Node("VariableDeclarationList", 170, <<172>>, 9, 10, 24),
  (* 172 *) [Node("VariableDeclaration", 171, <<173, 174>>, 13, 14, 24) EXCEPT !.name = 173, !.initializer = 174],
  (* 173 *) [Node("Identifier", 172, <<>>, 13, 14, 15) EXCEPT !.text = "w", !.sym = "pair.w"],
  (* 174 *) Node("AsExpression", 172, <<175, 176>>, 17, 18, 24),
  (* 175 *) [Node("Identifier", 174, <<>>, 17, 18, 19) EXCEPT !.text = "e", !.sym = "pair.e"],
  (* 176 *) Node("TypeReference", 174, <<177>>, 22, 23, 24),
  (* 177 *) [Node("Identifier", 176, <<>>, 22, 23, 24) EXCEPT !.text = "E", !.sym = "pair.E"],
  (* 178 *) Node("EndOfFileToken", 163, <<>>, 25, 26, 26),
  (* alias.ts:  class E {}  type T = E;  type P = [E, E[]]; *)
  (* 179 *) Node("SourceFile", 0, <<180, 182, 186, 194>>, 0, 0, 42),
  (* 180 *) [Node("ClassDeclaration", 179, <<181>>, 0, 0, 10) EXCEPT !.name = 181],
  (* 181 *) [Node("Identifier", 180, <<>>, 5, 6, 7) EXCEPT !.text = "E", !.sym = "alias.E"],
  (* 182 *) [Node("TypeAliasDeclaration", 179, <<183, 184>>, 10, 11, 22) EXCEPT !.name = 183, !.type = 184],
  (* 183 *) [Node("Identifier", 182, <<>>, 15, 16, 17) EXCEPT !.text = "T", !.sym = "alias.T"],
  (* 184 *) Node("TypeReference", 182, <<185>>, 19, 20, 21),
  (* 185 *) [Node("Identifier", 184, <<>>, 19, 20, 21) EXCEPT !.text = "E", !.sym = "alias.E"],
  (* 186 *) [Node("TypeAliasDeclaration", 179, <<187, 188>>, 22, 23, 41) EXCEPT !.name = 187, !.type = 188],
  (* 187 *) [Node("Identifier", 186, <<>>, 27, 28, 29) EXCEPT !.text = "P", !.sym = "alias.P"],
  (* 188 *) Node("TupleType", 186, <<189, 191>>, 31, 32, 40),
  (* 189 *) Node("TypeReference", 188, <<190>>, 33, 33, 34),
  (* 190 *) [Node("Identifier", 189, <<>>, 33, 33, 34) EXCEPT !.text = "E", !.sym = "alias.E"],
  (* 191 *) Node("ArrayType", 188, <<192>>, 35, 36, 39),
  (* 192 *) Node("TypeReference", 191, <<193>>, 35, 36, 37),
  (* 193 *) [Node("Identifier", 192, <<>>, 35, 36, 37) EXCEPT !.text = "E", !.sym = "alias.E"],
  (* 194 *) Node("EndOfFileToken", 179, <<>>, 41, 42, 42),
  (* query.ts:  type U = typeof undefined; *)
  (* 195 *) Node("SourceFile", 0, <<196, 200>>, 0, 0, 27),
  (* 196 *) [Node("TypeAliasDeclaration", 195, <<197, 198>>, 0, 0, 26) EXCEPT !.name = 197, !.type = 198],
  (* 197 *) [Node("Identifier", 196, <<>>, 4, 5, 6) EXCEPT !.text = "U", !.sym = "query.U"],
  (* 198 *) Node("TypeQuery", 196, <<199>>, 8, 9, 25),
  (* 199 *) [Node("Identifier", 198, <<>>, 15, 16, 25) EXCEPT !.text = "undefined", !.sym = "undefined"],
  (* 200 *) Node("EndOfFileToken", 195, <<>>, 26, 27, 27)
  >>

SymbolTable ==
  "simple.f" :> [declarations |-> <<2>>] @@
  "simple.x" :> [declarations |-> <<4>>] @@
  "blocks.f" :> [declarations |-> <<16>>] @@
  "blocks.a" :> [declarations |-> <<22>>] @@
  "blocks.b" :> [declarations |-> <<30>>] @@
  "scoped.C" :> [declarations |-> <<38>>] @@
  "scoped.y" :> [declarations |-> <<42>>] @@
  "scoped.z" :> [declarations |-> <<50>>] @@
  "scoped.D" :> [declarations |-> <<54>>] @@
  "types.A" :> [declarations |-> <<58>>] @@
  "types.B" :> [declarations |-> <<61>>] @@
  "types.I" :> [declarations |-> <<65>>] @@
  "types.p" :> [declarations |-> <<67>>] @@
  "nested.f" :> [declarations |-> <<73>>] @@
  "nested.x" :> [declarations |-> <<75>>] @@
  "nested.g" :> [declarations |-> <<78>>] @@
  "nested.a" :> [declarations |-> <<80>>] @@
  "members.K" :> [declarations |-> <<88>>] @@
  "members.m" :> [declarations |-> <<90>>] @@
  "members.p" :> [declarations |-> <<92>>] @@
  "members.n" :> [declarations |-> <<97>>] @@
  "members.default" :> [declarations |-> <<100>>] @@
  "members.q" :> [declarations |-> <<103>>] @@
  "pattern.a" :> [declarations |-> <<114>>] @@
  "pattern.b" :> [declarations |-> <<116>>] @@
  "undeclared.o" :> [declarations |-> <<131>>] @@
  "undeclared.u" :> [declarations |-> <<142>>] @@
  "undefined" :> [declarations |-> <<>>] @@
  "record.R" :> [declarations |-> <<148>>] @@
  "record.r" :> [declarations |-> <<152>>] @@
  "pair.E" :> [declarations |-> <<160>>] @@
  "pair.e" :> [declarations |-> <<166>>] @@
  "pair.w" :> [declarations |-> <<172>>] @@
  "alias.E" :> [declarations |-> <<180>>] @@
  "alias.T" :> [declarations |-> <<182>>] @@
  "alias.P" :> [declarations |-> <<186>>] @@
  "query.U" :> [declarations |-> <<196>>]

FileTable ==
  "simple.ts" :> [root |-> 1, path |-> <<"src", "simple.ts">>,
      text |-> <<102, 117, 110, 99, 116, 105, 111, 110, 32, 102, 40, 120, 58, 32, 110, 117, 109, 98, 101, 114, 41, 32, 123, 32,
                 120, 59, 32, 125, 10, 101, 120, 112, 111, 114, 116, 32, 123, 102, 125, 59, 10>>] @@
  "blocks.ts" :> [root |-> 15, path |-> <<"src", "blocks.ts">>,
      text |-> <<102, 117, 110, 99, 116, 105, 111, 110, 32, 102, 40, 41, 32, 123, 32, 123, 32, 108, 101, 116, 32, 97, 32, 61,
                 32, 49, 59, 32, 97, 59, 32, 125, 32, 123, 32, 108, 101, 116, 32, 98, 32, 61, 32, 50, 59, 32, 98, 59,
                 32, 125, 32, 125, 10>>] @@
  "scoped.ts" :> [root |-> 36, path |-> <<"src", "scoped.ts">>,
      text |-> <<123, 32, 99, 108, 97, 115, 115, 32, 67, 32, 123, 125, 32, 108, 101, 116, 32, 121, 58, 32, 67, 32, 61, 32,
                 110, 101, 119, 32, 67, 40, 41, 59, 32, 108, 101, 116, 32, 122, 58, 32, 68, 59, 32, 99, 108, 97, 115, 115,
                 32, 68, 32, 123, 125, 32, 125, 10>>] @@
  "types.ts" :> [root |-> 57, path |-> <<"src", "types.ts">>,
      text |-> <<116, 121, 112, 101, 32, 65, 32, 61, 32, 110, 117, 109, 98, 101, 114, 59, 32, 116, 121, 112, 101, 32, 66, 32,
                 61, 32, 65, 59, 32, 105, 110, 116, 101, 114, 102, 97, 99, 101, 32, 73, 32, 123, 32, 112, 58, 32, 65, 59,
                 32, 125, 10>>] @@
  "nested.ts" :> [root |-> 72, path |-> <<"src", "nested.ts">>,
      text |-> <<102, 117, 110, 99, 116, 105, 111, 110, 32, 102, 40, 120, 41, 32, 123, 32, 102, 117, 110, 99, 116, 105, 111, 110,
                 32, 103, 40, 97, 32, 61, 32, 120, 41, 32, 123, 32, 97, 59, 32, 125, 32, 125, 10>>] @@
  "members.ts" :> [root |-> 87, path |-> <<"src", "members.ts">>,
      text |-> <<99, 108, 97, 115, 115, 32, 75, 32, 123, 32, 34, 109, 34, 40, 112, 41, 32, 123, 32, 112, 59, 32, 125, 32,
                 110, 32, 61, 32, 49, 59, 32, 125, 10, 101, 120, 112, 111, 114, 116, 32, 100, 101, 102, 97, 117, 108, 116, 32,
                 102, 117, 110, 99, 116, 105, 111, 110, 32, 40, 113, 41, 32, 123, 32, 113, 59, 32, 125, 10>>] @@
  "pattern.ts" :> [root |-> 109, path |-> <<"src", "pattern.ts">>,
      text |-> <<108, 101, 116, 32, 91, 97, 44, 32, 98, 93, 32, 61, 32, 91, 49, 44, 32, 50, 93, 59, 32, 97, 59, 32,
                 98, 59, 32, 97, 59, 10>>] @@
  "undeclared.ts" :> [root |-> 128, path |-> <<"src", "undeclared.ts">>,
      text |-> <<108, 101, 116, 32, 111, 58, 32, 97, 110, 121, 59, 32, 111, 46, 102, 111, 111, 59, 32, 117, 110, 100, 101, 102,
                 105, 110, 101, 100, 59, 32, 108, 101, 116, 32, 117, 58, 32, 116, 121, 112, 101, 111, 102, 32, 117, 110, 100, 101,
                 102, 105, 110, 101, 100, 59, 10>>] @@
  "record.ts" :> [root |-> 147, path |-> <<"src", "record.ts">>,
      text |-> <<99, 108, 97, 115, 115, 32, 82, 32, 123, 125, 10, 108, 101, 116, 32, 114, 58, 32, 82, 32, 61, 32, 110, 101,
                 119, 32, 82, 40, 41, 59, 10>>] @@
  "lib/e.ts" :> [root |-> 159, path |-> <<"src", "lib", "e.ts">>,
      text |-> <<99, 108, 97, 115, 115, 32, 69, 32, 123, 125, 10>>] @@
  "use.ts" :> [root |-> 163, path |-> <<"src", "use.ts">>,
      text |-> <<108, 101, 116, 32, 101, 58, 32, 69, 59, 32, 108, 101, 116, 32, 119, 32, 61, 32, 101, 32, 97, 115, 32, 69,
                 59, 10>>] @@
  "alias.ts" :> [root |-> 179, path |-> <<"src", "alias.ts">>,
      text |-> <<99, 108, 97, 115, 115, 32, 69, 32, 123, 125, 10, 116, 121, 112, 101, 32, 84, 32, 61, 32, 69, 59, 10, 116,
                 121, 112, 101, 32, 80, 32, 61, 32, 91, 69, 44, 32, 69, 91, 93, 93, 59, 10>>] @@
  "query.ts" :> [root |-> 195, path |-> <<"src", "query.ts">>,
      text |-> <<116, 121, 112, 101, 32, 85, 32, 61, 32, 116, 121, 112, 101, 111, 102, 32, 117, 110, 100, 101, 102, 105, 110, 101,
                 100, 59, 10>>]

ProgramTable ==
  "simple" :> <<"simple.ts">> @@
  "blocks" :> <<"blocks.ts">> @@
  "scoped" :> <<"scoped.ts">> @@
  "types" :> <<"types.ts">> @@
  "nested" :> <<"nested.ts">> @@
  "members" :> <<"members.ts">> @@
  "pattern" :> <<"pattern.ts">> @@
  "undeclared" :> <<"undeclared.ts">> @@
  "record" :> <<"record.ts">> @@
  "pair" :> <<"lib/e.ts", "use.ts">> @@
  "alias" :> <<"alias.ts">> @@
  "query" :> <<"query.ts">>

RECURSIVE RootOf(_)
RootOf(n) == IF NodeTable[n].parent = Undefined THEN n ELSE RootOf(NodeTable[n].parent)

\* The ts.Program with the given source files: the files, the nodes of their
\* trees and the symbols the type checker resolves their nodes to.
ProgramOf(fileNames) ==
  LET roots == {FileTable[fileNames[i]].root : i \in 1..Len(fileNames)}
      nodes == {n \in DOMAIN NodeTable : RootOf(n) \in roots}
      syms == {NodeTable[n].sym : n \in nodes} \ {NoSymbol}
  IN [fileNames |-> fileNames,
      files |-> [f \in {fileNames[i] : i \in 1..Len(fileNames)} |-> FileTable[f]],
      nodes |-> [n \in nodes |-> NodeTable[n]],
      symbols |-> [s \in syms |-> SymbolTable[s]]]

\* process.cwd(), the sourceRoot every Vistor is constructed with.
Cwd == <<"src">>

\* A path no source file of any program has.
MissingPath == "missing.ts"

--------------------------------------------------------------------------
(***************************************************************************)
(* Strings.  Signatures and paths are strings, built with \o; a number is  *)
(* formatted in decimal by ToString.  A fact value is the base64 text of   *)
(* the UTF-8 bytes of the value, so values are byte sequences here.        *)
(***************************************************************************)
RECURSIVE Join(_, _)
Join(parts, sep) ==
  IF Len(parts) = 0 THEN ""
  ELSE IF Len(parts) = 1 THEN parts[1]
  ELSE parts[1] \o sep \o Join(Tail(parts), sep)

Reverse(s) == [i \in 1..Len(s) |-> s[Len(s) + 1 - i]]

RECURSIVE CommonPrefix(_, _)
CommonPrefix(a, b) ==
  IF Len(a) = 0 \/ Len(b) = 0 \/ a[1] # b[1] THEN 0
  ELSE 1 + CommonPrefix(Tail(a), Tail(b))

\* path.relative(from, to) for two absolute paths, given by their segments.
PathRelative(from, to) ==
  LET n == CommonPrefix(from, to)
  IN Join([i \in 1..(Len(from) - n) |-> ".."] \o SubSeq(to, n + 1, Len(to)), "/")

RECURSIVE DecimalBytes(_)
DecimalBytes(n) ==
  IF n < 10 THEN <<48 + n>> ELSE Append(DecimalBytes(n \div 10), 48 + (n % 10))

Utf8 ==
  "anchor"    :> <<97, 110, 99, 104, 111, 114>> @@
  "file"      :> <<102, 105, 108, 101>> @@
  "interface" :> <<105, 110, 116, 101, 114, 102, 97, 99, 101>> @@
  "alias"     :> <<97, 108, 105, 97, 115>> @@
  "variable"  :> <<118, 97, 114, 105, 97, 98, 108, 101>> @@
  "function"  :> <<102, 117, 110, 99, 116, 105, 111, 110>> @@
  "record"    :> <<114, 101, 99, 111, 114, 100>>

Base64Alphabet ==
  <<"A", "B", "C", "D", "E", "F", "G", "H", "I", "J", "K", "L", "M",
    "N", "O", "P", "Q", "R", "S", "T", "U", "V", "W", "X", "Y", "Z",
    "a", "b", "c", "d", "e", "f", "g", "h", "i", "j", "k", "l", "m",
    "n", "o", "p", "q", "r", "s", "t", "u", "v", "w", "x", "y", "z",
    "0", "1", "2", "3", "4", "5", "6", "7", "8", "9", "+", "/">>

Base64Char(i) == Base64Alphabet[i + 1]

RECURSIVE Base64(_)
Base64(b) ==
  IF Len(b) = 0 THEN ""
  ELSE IF Len(b) = 1 THEN
    Base64Char(b[1] \div 4) \o Base64Char((b[1] % 4) * 16) \o "=="
  ELSE IF Len(b) = 2 THEN
    Base64Char(b[1] \div 4) \o Base64Char((b[1] % 4) * 16 + b[2] \div 16)
      \o Base64Char((b[2] % 16) * 4) \o "="
  ELSE
    Base64Char(b[1] \div 4) \o Base64Char((b[1] % 4) * 16 + b[2] \div 16)
      \o Base64Char((b[2] % 16) * 4 + b[3] \div 64) \o Base64Char(b[3] % 64)
      \o Base64(SubSeq(b, 4, Len(b)))

--------------------------------------------------------------------------
VARIABLES
  program,    \* the ts.Program index() is called with
  paths,      \* the paths index() is called with
  diags,      \* the number of pre-emit diagnostics of the program
  pc,         \* where index() is: "start", "indexing", "done", "error"
  error,      \* the message of the Error index() failed with
  pathIdx,    \* the number of paths whose indexing has begun
  vistor,     \* the Vistor of the current path
  stack,      \* the pending visit()/visitType() calls of the current Vistor
  sink,       \* every object handed to emit, in order
  passStart   \* Len(sink) at the moment each pass began

vars == <<program, paths, diags, pc, error, pathIdx, vistor, stack, sink, passStart>>

\* The syntax trees, symbols and source files of the program being indexed.
Nodes == program.nodes
Symbols == program.symbols
Files == program.files

(***************************************************************************)
(* The Vistor.  Its methods are operators on the machine record m: the     *)
(* fields of the Vistor, the sink its emit writes to, and `thrown`, the    *)
(* message of the Error that is unwinding ("" when none is).               *)
(***************************************************************************)
NoError == ""

\* Before the first path no Vistor exists.
NoVistor ==
  [sourceFile |-> Undefined, kFile |-> Null, symbolNames |-> <<>>, anonId |-> 0]

\* A Vistor that goes on from the counter of the Vistor before it.
NewVistorSharedCounter ==
  [sourceFile |-> Undefined, kFile |-> Null, symbolNames |-> <<>>, anonId |-> vistor.anonId]

\* new Vistor(typeChecker, sourceRoot): the field initialisers.
NewVistor ==
  [sourceFile |-> Undefined, kFile |-> Null, symbolNames |-> <<>>, anonId |-> 0]

Machine(v, s) ==
  [sourceFile |-> v.sourceFile, kFile |-> v.kFile, symbolNames |-> v.symbolNames,
   anonId |-> v.anonId, sink |-> s, thrown |-> NoError]

VistorOf(m) ==
  [sourceFile |-> m.sourceFile, kFile |-> m.kFile, symbolNames |-> m.symbolNames,
   anonId |-> m.anonId]

Throw(m, message) == IF m.thrown # NoError THEN m ELSE [m EXCEPT !.thrown = message]

\* The ts.SourceFile with the given root node.
FileOf(root) == CHOOSE f \in DOMAIN Files : Files[f].root = root

newVName(m, signature, sourceFile) ==
  [signature |-> signature,
   path |-> PathRelative(Cwd, Files[FileOf(sourceFile)].path),
   language |-> "typescript",
   root |-> "",
   corpus |-> "TODO"]

emit(m, obj) == IF m.thrown # NoError THEN m ELSE [m EXCEPT !.sink = Append(@, obj)]

emitFact(m, source, name, value) ==
  emit(m, [source |-> source,
           fact_name |-> "/kythe/" \o name,
           fact_value |-> Base64(value)])

emitNode(m, source, kind) == emitFact(m, source, "node/kind", Utf8[kind])

emitEdge(m, source, name, target) ==
  emit(m, [source |-> source,
           edge_kind |-> "/kythe/edge/" \o name,
           target |-> target,
           fact_name |-> "/"])

\* An anchor signature made of the start position alone.
AnchorSignatureStartOnly(pos, end) == "@" \o ToString(pos)

AnchorSignature(pos, end) == "@" \o ToString(pos) \o ":" \o ToString(end)

newAnchor(m, node) ==
  LET name == newVName(m, AnchorSignature(Nodes[node].pos, Nodes[node].end), m.sourceFile)
      m1 == emitNode(m, name, "anchor")
      m2 == emitFact(m1, name, "loc/start", DecimalBytes(Nodes[node].start))
      m3 == emitFact(m2, name, "loc/end", DecimalBytes(Nodes[node].end))
      m4 == emitEdge(m3, name, "childof", m.kFile)
  IN [m |-> m4, ret |-> name]

\* The node kinds whose declared name scopedSignature gathers.
ScopeKinds ==
  {"ClassDeclaration", "FunctionDeclaration", "InterfaceDeclaration",
   "MethodDeclaration", "Parameter", "PropertyDeclaration",
   "PropertySignature", "VariableDeclaration"}

\* The switch of scopedSignature with this.anonId read but not incremented
\* for a block.
ScopeCaseBlockNotCounted(node, w) ==
  CASE Nodes[node].kind = "Block" ->
         IF Nodes[node].parent # Undefined
            /\ Nodes[Nodes[node].parent].kind \in {"FunctionDeclaration", "MethodDeclaration"}
         THEN w
         ELSE [w EXCEPT !.parts = Append(@, "block" \o ToString(w.anonId))]
    [] Nodes[node].kind \in ScopeKinds ->
         IF Nodes[node].name # Undefined /\ Nodes[Nodes[node].name].kind = "Identifier"
         THEN [w EXCEPT !.parts = Append(@, Nodes[Nodes[node].name].text)]
         ELSE [w EXCEPT !.parts = Append(@, "anon" \o ToString(w.anonId)),
                        !.anonId = @ + 1]
    [] Nodes[node].kind = "SourceFile" -> [w EXCEPT !.sourceFile = node]
    [] OTHER -> w

\* The switch of scopedSignature on one node of the ancestor chain.
\* w is [parts, anonId, sourceFile].
ScopeCase(node, w) ==
  CASE Nodes[node].kind = "Block" ->
         IF Nodes[node].parent # Undefined
            /\ Nodes[Nodes[node].parent].kind \in {"FunctionDeclaration", "MethodDeclaration"}
         THEN w
         ELSE [w EXCEPT !.parts = Append(@, "block" \o ToString(w.anonId)),
                        !.anonId = @ + 1]
    [] Nodes[node].kind \in ScopeKinds ->
         IF Nodes[node].name # Undefined /\ Nodes[Nodes[node].name].kind = "Identifier"
         THEN [w EXCEPT !.parts = Append(@, Nodes[Nodes[node].name].text)]
         ELSE [w EXCEPT !.parts = Append(@, "anon" \o ToString(w.anonId)),
                        !.anonId = @ + 1]
    [] Nodes[node].kind = "SourceFile" -> [w EXCEPT !.sourceFile = node]
    [] OTHER -> w

\* The loop of scopedSignature, from `node` up to the root.
RECURSIVE ScopeWalk(_, _)
ScopeWalk(node, w) ==
  IF node = Undefined THEN w
  ELSE ScopeWalk(Nodes[node].parent, ScopeCase(node, w))

\* scopedSignature(startNode) with this.anonId = anonId:
\* [sig, sourceFile] and the anonId it leaves.
scopedSignature(anonId, startNode) ==
  LET w == ScopeWalk(startNode, [parts |-> <<>>, anonId |-> anonId, sourceFile |-> Undefined])
  IN [sig |-> Join(Reverse(w.parts), "."), sourceFile |-> w.sourceFile, anonId |-> w.anonId]

\* getSymbolName past the lookup in symbolNames: the name is computed and saved.
\* vnames is the tuple of sym, or [null, null] when it has none yet.
computeSymbolName(m, sym, ns, vnames) ==
  IF sym = NoSymbol
    THEN [m |-> Throw(m, "TypeError: Cannot read property 'declarations' of undefined"),
          ret |-> Null]
  ELSE IF Len(Symbols[sym].declarations) < 1
    THEN [m |-> Throw(m, "TODO: symbol has no declarations?"), ret |-> Null]
  ELSE
    LET decl == Symbols[sym].declarations[1]
        s == scopedSignature(m.anonId, decl)
        sig == IF ns = TYPE THEN s.sig \o "#type" ELSE s.sig
        vname == newVName(m, sig, s.sourceFile)
    IN [m |-> [m EXCEPT !.anonId = s.anonId,
                        !.symbolNames = (sym :> [vnames EXCEPT ![ns] = vname]) @@ @],
        ret |-> vname]

\* The tuple symbolNames holds for sym, or [null, null].
VNamesOf(m, sym) ==
  IF sym \in DOMAIN m.symbolNames THEN m.symbolNames[sym] ELSE [n \in TSNamespace |-> Null]

\* getSymbolName without the lookup: every call computes the name anew.
getSymbolNameUncached(m, sym, ns) ==
  IF m.thrown # NoError THEN [m |-> m, ret |-> Null]
  ELSE computeSymbolName(m, sym, ns, VNamesOf(m, sym))

getSymbolName(m, sym, ns) ==
  IF m.thrown # NoError THEN [m |-> m, ret |-> Null]
  ELSE IF VNamesOf(m, sym)[ns] # Null THEN [m |-> m, ret |-> VNamesOf(m, sym)[ns]]
  ELSE computeSymbolName(m, sym, ns, VNamesOf(m, sym))

(***************************************************************************)
(* The handlers.  Each returns the machine it leaves and `calls`, the      *)
(* visit()/visitType() calls it ends with, in the order it makes them.     *)
(***************************************************************************)
Call(node, mode) == [node |-> node, mode |-> mode]

CallEach(nodes, mode) == [i \in 1..Len(nodes) |-> Call(nodes[i], mode)]

\* typeChecker.getSymbolAtLocation(node)
getSymbolAtLocation(node) == Nodes[node].sym

visitInterfaceDeclaration(m, decl) ==
  LET sym == getSymbolAtLocation(Nodes[decl].name)
      kType == getSymbolName(m, sym, TYPE)
      m1 == emitNode(kType.m, kType.ret, "interface")
      anchor == newAnchor(m1, Nodes[decl].name)
      m2 == emitEdge(anchor.m, anchor.ret, "defines/binding", kType.ret)
  IN [m |-> m2, calls |-> CallEach(Nodes[decl].members, "visit")]

visitTypeAliasDeclaration(m, decl) ==
  LET sym == getSymbolAtLocation(Nodes[decl].name)
      kType == getSymbolName(m, sym, TYPE)
      m1 == emitNode(kType.m, kType.ret, "alias")
      anchor == newAnchor(m1, Nodes[decl].name)
      m2 == emitEdge(anchor.m, anchor.ret, "defines/binding", kType.ret)
  IN [m |-> m2, calls |-> <<Call(Nodes[decl].type, "visitType")>>]

visitType(m, node) ==
  IF Nodes[node].kind = "Identifier" THEN
    LET sym == getSymbolAtLocation(node)
        name == getSymbolName(m, sym, TYPE)
        anchor == newAnchor(name.m, node)
    IN [m |-> emitEdge(anchor.m, anchor.ret, "ref", name.ret), calls |-> <<>>]
  ELSE [m |-> m, calls |-> CallEach(Nodes[node].children, "visitType")]

visitExportDeclaration(m, decl) == [m |-> m, calls |-> <<>>]

visitVariableDeclaration(m, decl) ==
  LET d == Nodes[decl]
      m2 == IF Nodes[d.name].kind = "Identifier" THEN
              LET sym == getSymbolAtLocation(d.name)
                  kVar == getSymbolName(m, sym, VALUE)
                  m1 == emitNode(kVar.m, kVar.ret, "variable")
                  anchor == newAnchor(m1, d.name)
              IN emitEdge(anchor.m, anchor.ret, "defines/binding", kVar.ret)
            ELSE m
  IN [m |-> m2,
      calls |-> (IF d.type # Undefined THEN <<Call(d.type, "visitType")>> ELSE <<>>)
                \o (IF d.initializer # Undefined THEN <<Call(d.initializer, "visit")>> ELSE <<>>)]

\* The loop over decl.parameters.entries(), from the entry [index, params[1]] on.
RECURSIVE visitParameters(_, _, _, _)
visitParameters(m, kFunc, params, index) ==
  IF Len(params) = 0 THEN m
  ELSE
    LET param == params[1]
        sym == getSymbolAtLocation(Nodes[param].name)
        kParam == getSymbolName(m, sym, VALUE)
        m1 == emitNode(kParam.m, kParam.ret, "variable")
        m2 == emitEdge(m1, kFunc, "param." \o ToString(index), kParam.ret)
        anchor == newAnchor(m2, Nodes[param].name)
        m3 == emitEdge(anchor.m, anchor.ret, "defines/binding", kParam.ret)
    IN visitParameters(m3, kFunc, Tail(params), index + 1)

visitFunctionLikeDeclaration(m, decl) ==
  LET d == Nodes[decl]
      named ==
        LET sym == getSymbolAtLocation(d.name)
            kFunc == getSymbolName(m, sym, VALUE)
            m1 == emitNode(kFunc.m, kFunc.ret, "function")
            anchor == newAnchor(m1, d.name)
        IN [m |-> emitEdge(anchor.m, anchor.ret, "defines/binding", kFunc.ret),
            ret |-> kFunc.ret]
      f == IF d.name # Undefined THEN named
           ELSE [m |-> m, ret |-> newVName(m, "TODO", m.sourceFile)]
  IN [m |-> visitParameters(f.m, f.ret, d.parameters, 0),
      calls |-> IF d.body # Undefined THEN <<Call(d.body, "visit")>> ELSE <<>>]

visitClassDeclaration(m, decl) ==
  LET d == Nodes[decl]
      m2 == IF d.name # Undefined THEN
              LET sym == getSymbolAtLocation(d.name)
                  kClass == getSymbolName(m, sym, VALUE)
                  m1 == emitNode(kClass.m, kClass.ret, "record")
                  anchor == newAnchor(m1, d.name)
              IN emitEdge(anchor.m, anchor.ret, "defines/binding", kClass.ret)
            ELSE m
  IN [m |-> m2, calls |-> CallEach(d.members, "visit")]

\* case ts.SyntaxKind.Identifier of visit()
visitIdentifier(m, node) ==
  LET sym == getSymbolAtLocation(node)
  IN IF sym = NoSymbol THEN [m |-> m, calls |-> <<>>]
     ELSE IF Len(Symbols[sym].declarations) = 0 THEN [m |-> m, calls |-> <<>>]
     ELSE
       LET name == getSymbolName(m, sym, VALUE)
           anchor == newAnchor(name.m, node)
       IN [m |-> emitEdge(anchor.m, anchor.ret, "ref", name.ret), calls |-> <<>>]

\* default: of visit()
visitDefault(m, node) == [m |-> m, calls |-> CallEach(Nodes[node].children, "visit")]

\* indexFile that announces nothing about the file before it walks the tree.
indexFileSilent(m, file) ==
  IF file = Undefined
  THEN [m |-> Throw([m EXCEPT !.sourceFile = file],
                    "TypeError: Cannot read property 'path' of undefined"),
        calls |-> <<>>]
  ELSE
    LET m1 == [m EXCEPT !.sourceFile = file]
        m2 == [m1 EXCEPT !.kFile = [newVName(m1, "", file) EXCEPT !.language = ""]]
    IN [m |-> m2, calls |-> CallEach(Nodes[file].children, "visit")]

indexFile(m, file) ==
  IF file = Undefined
  THEN [m |-> Throw([m EXCEPT !.sourceFile = file],
                    "TypeError: Cannot read property 'path' of undefined"),
        calls |-> <<>>]
  ELSE
    LET m1 == [m EXCEPT !.sourceFile = file]
        m2 == [m1 EXCEPT !.kFile = [newVName(m1, "", file) EXCEPT !.language = ""]]
        m3 == emitFact(m2, m2.kFile, "node/kind", Utf8["file"])
        m4 == emitFact(m3, m3.kFile, "text", Files[FileOf(file)].text)
    IN [m |-> m4, calls |-> CallEach(Nodes[file].children, "visit")]

\* program.getSourceFile(path)
getSourceFile(prog, path) ==
  IF path \in DOMAIN prog.files THEN prog.files[path].root ELSE Undefined

--------------------------------------------------------------------------
(***************************************************************************)
(* The state machine.                                                      *)
(***************************************************************************)
SeqsUpTo(S, n) == UNION {[1..k -> S] : k \in 0..n}

Init ==
  /\ program \in {ProgramOf(ProgramTable[p]) : p \in DOMAIN ProgramTable}
  /\ paths \in SeqsUpTo(DOMAIN program.files \cup {MissingPath}, MaxPaths)
  /\ diags \in 0..MaxDiags
  /\ pc = "start"
  /\ error = NoError
  /\ pathIdx = 0
  /\ vistor = NoVistor
  /\ stack = <<>>
  /\ sink = <<>>
  /\ passStart = <<>>

\* The handler whose result is r returns (or throws) to the pending calls.
Step(r, rest) ==
  /\ vistor' = VistorOf(r.m)
  /\ sink' = r.m.sink
  /\ IF r.m.thrown # NoError
     THEN pc' = "error" /\ error' = r.m.thrown /\ stack' = <<>>
     ELSE pc' = "indexing" /\ error' = error /\ stack' = r.calls \o rest

\* index() without the check of the diagnostics.
IndexUnchecked ==
  /\ pc = "start"
  /\ pc' = "indexing" /\ error' = error
  /\ UNCHANGED <<program, paths, diags, pathIdx, vistor, stack, sink, passStart>>

\* index(): the check of the diagnostics.
Index ==
  /\ pc = "start"
  /\ IF diags > 0
     THEN pc' = "error" /\ error' = "diagnostics"
     ELSE pc' = "indexing" /\ error' = error
  /\ UNCHANGED <<program, paths, diags, pathIdx, vistor, stack, sink, passStart>>

\* index(): one iteration of the loop over paths, up to indexFile's recursion.
IndexPath ==
  /\ pc = "indexing" /\ stack = <<>> /\ pathIdx < Len(paths)
  /\ LET sourceFile == getSourceFile(program, paths[pathIdx + 1])
     IN Step(indexFile(Machine(NewVistor, sink), sourceFile), <<>>)
  /\ pathIdx' = pathIdx + 1
  /\ passStart' = Append(passStart, Len(sink))
  /\ UNCHANGED <<program, paths, diags>>

\* index(): the loop is over.
Return ==
  /\ pc = "indexing" /\ stack = <<>> /\ pathIdx = Len(paths)
  /\ pc' = "done"
  /\ UNCHANGED <<program, paths, diags, error, pathIdx, vistor, stack, sink, passStart>>

\* The pending call on top of the stack is mode(node) with node.kind in kinds.
Pending(mode, kinds) ==
  /\ pc = "indexing" /\ stack # <<>>
  /\ Head(stack).mode = mode
  /\ Nodes[Head(stack).node].kind \in kinds

Run(r) ==
  /\ Step(r, Tail(stack))
  /\ UNCHANGED <<program, paths, diags, pathIdx, passStart>>

VisitExportDeclaration ==
  /\ Pending("visit", {"ExportDeclaration"})
  /\ Run(visitExportDeclaration(Machine(vistor, sink), Head(stack).node))

VisitVariableDeclaration ==
  /\ Pending("visit", {"VariableDeclaration", "PropertyDeclaration"})
  /\ Run(visitVariableDeclaration(Machine(vistor, sink), Head(stack).node))

VisitFunctionLikeDeclaration ==
  /\ Pending("visit", {"FunctionDeclaration", "MethodDeclaration"})
  /\ Run(visitFunctionLikeDeclaration(Machine(vistor, sink), Head(stack).node))

VisitClassDeclaration ==
  /\ Pending("visit", {"ClassDeclaration"})
  /\ Run(visitClassDeclaration(Machine(vistor, sink), Head(stack).node))

VisitInterfaceDeclaration ==
  /\ Pending("visit", {"InterfaceDeclaration"})
  /\ Run(visitInterfaceDeclaration(Machine(vistor, sink), Head(stack).node))

VisitTypeAliasDeclaration ==
  /\ Pending("visit", {"TypeAliasDeclaration"})
  /\ Run(visitTypeAliasDeclaration(Machine(vistor, sink), Head(stack).node))

VisitTypeReference ==
  /\ Pending("visit", {"TypeReference"})
  /\ Run(visitType(Machine(vistor, sink), Head(stack).node))

VisitIdentifier ==
  /\ Pending("visit", {"Identifier"})
  /\ Run(visitIdentifier(Machine(vistor, sink), Head(stack).node))

\* The kinds visit() has a case for.
VisitKinds ==
  {"ExportDeclaration", "VariableDeclaration", "PropertyDeclaration",
   "FunctionDeclaration", "MethodDeclaration", "ClassDeclaration",
   "InterfaceDeclaration", "TypeAliasDeclaration", "TypeReference", "Identifier"}

AllKinds == {Nodes[n].kind : n \in DOMAIN Nodes}

VisitDefault ==
  /\ Pending("visit", AllKinds \ VisitKinds)
  /\ Run(visitDefault(Machine(vistor, sink), Head(stack).node))

VisitType ==
  /\ Pending("visitType", AllKinds)
  /\ Run(visitType(Machine(vistor, sink), Head(stack).node))

Next ==
  \/ Index
  \/ IndexPath
  \/ Return
  \/ VisitExportDeclaration
  \/ VisitVariableDeclaration
  \/ VisitFunctionLikeDeclaration
  \/ VisitClassDeclaration
  \/ VisitInterfaceDeclaration
  \/ VisitTypeAliasDeclaration
  \/ VisitTypeReference
  \/ VisitIdentifier
  \/ VisitDefault
  \/ VisitType

Spec == Init /\ [][Next]_vars

--------------------------------------------------------------------------
(***************************************************************************)
(* Properties.                                                             *)
(***************************************************************************)
\* The entries pass i (the indexing of paths[i]) delivered to the sink.
PassEntries(i) ==
  SubSeq(sink, passStart[i] + 1,
         IF i < Len(passStart) THEN passStart[i + 1] ELSE Len(sink))

\* Pass i ran to its end.
PassComplete(i) ==
  \/ i < pathIdx
  \/ i = pathIdx /\ stack = <<>> /\ pc \in {"indexing", "done"}

IsEdge(e) == "edge_kind" \in DOMAIN e

IsFact(e, name) == ~IsEdge(e) /\ e.fact_name = "/kythe/" \o name

IsEdgeOfKind(e, kind) == IsEdge(e) /\ e.edge_kind = "/kythe/edge/" \o kind

\* C1: when the program has at least one pre-emit diagnostic, index() fails
\* before any traversal starts: whatever the paths, no path is begun, no call
\* is pending and the sink has received no entry.
FatalOnDiagnostics ==
  diags >= 1 =>
    /\ sink = <<>>
    /\ pathIdx = 0 /\ stack = <<>>
    /\ pc \in {"start", "error"}

\* C1 witness: index() has failed on a program with diagnostics although a
\* path of the program was requested.
FatalOnDiagnosticsWitness ==
  /\ diags >= 1 /\ pc = "error" /\ error = "diagnostics"
  /\ Len(paths) >= 1 /\ paths[1] \in DOMAIN program.files

\* C2: two completed passes over the same path deliver identical entry
\* sequences, and each pass begins with an empty symbolNames table and
\* anonId = 0: when only the two facts of the file node have been emitted,
\* the Vistor has no name and its counter is 0.
Determinism ==
  /\ \A i, j \in 1..Len(passStart) :
       (paths[i] = paths[j] /\ PassComplete(i) /\ PassComplete(j))
         => PassEntries(i) = PassEntries(j)
  /\ (pathIdx >= 1 /\ pc = "indexing" /\ Len(sink) = passStart[pathIdx] + 2)
       => (DOMAIN vistor.symbolNames = {} /\ vistor.anonId = 0)

\* C2 witness: the run is over, the same file was indexed twice, the file has
\* free-standing blocks (so the counter was used), and both passes emitted.
DeterminismWitness ==
  /\ pc = "done" /\ Len(paths) = 2 /\ paths[1] = paths[2]
  /\ paths[1] = "blocks.ts"
  /\ Len(PassEntries(1)) > 2 /\ Len(PassEntries(2)) > 2
  /\ \E i \in 1..Len(sink) : sink[i].source.signature = "f.block1.b"

\* The slot (sym, ns) of the symbolNames table of the current Vistor.
Filled(sym, ns) ==
  sym \in DOMAIN vistor.symbolNames /\ vistor.symbolNames[sym][ns] # Null

Slot(sym, ns) == vistor.symbolNames[sym][ns]

\* C3: whenever both slots of a symbol are filled, the TYPE VName is the VALUE
\* VName with "#type" appended to the signature: the signatures differ by
\* exactly that suffix and path, language, root and corpus are equal,
\* wherever the declaration sits and whichever namespace was looked up first.
NamespaceSeparation ==
  \A sym \in DOMAIN vistor.symbolNames :
    (Filled(sym, TYPE) /\ Filled(sym, VALUE)) =>
      Slot(sym, TYPE) = [Slot(sym, VALUE) EXCEPT !.signature = @ \o "#type"]

\* The declaration kinds the identifier scheme names: class/interface,
\* function, method, field, parameter, type alias, variable.
NamedKinds ==
  {"ClassDeclaration", "InterfaceDeclaration", "FunctionDeclaration",
   "MethodDeclaration", "PropertyDeclaration", "PropertySignature",
   "Parameter", "TypeAliasDeclaration", "VariableDeclaration"}

FirstDeclaration(sym) == Symbols[sym].declarations[1]

\* C4: two distinct symbols whose first declarations are distinct nodes of the
\* named kinds never have equal VNames in the same namespace.
CollisionFree ==
  \A s1, s2 \in DOMAIN vistor.symbolNames : \A ns \in TSNamespace :
    ( /\ s1 # s2
      /\ Filled(s1, ns) /\ Filled(s2, ns)
      /\ FirstDeclaration(s1) # FirstDeclaration(s2)
      /\ Nodes[FirstDeclaration(s1)].kind \in NamedKinds
      /\ Nodes[FirstDeclaration(s2)].kind \in NamedKinds )
    => Slot(s1, ns) # Slot(s2, ns)

\* C5: the table is memoizing and write-once within a pass.  In every state of
\* a pass, for every filled slot (sym, ns): getSymbolName(sym, ns) returns the
\* VName in the slot and leaves the Vistor and the sink as they are (the
\* counter does not advance, nothing is emitted, nothing is thrown); and no
\* getSymbolName call, for any symbol and namespace, changes the slot.
\* Along the run, a step of a pass leaves every filled slot as it is.
MemoSlotsStable ==
  \A sym \in DOMAIN vistor.symbolNames : \A ns \in TSNamespace :
    Filled(sym, ns) =>
      /\ getSymbolName(Machine(vistor, sink), sym, ns)
           = [m |-> Machine(vistor, sink), ret |-> Slot(sym, ns)]
      /\ \A s2 \in DOMAIN Symbols : \A ns2 \in TSNamespace :
           LET r == getSymbolName(Machine(vistor, sink), s2, ns2)
           IN r.m.symbolNames[sym][ns] = Slot(sym, ns)

MemoWriteOnce ==
  /\ []MemoSlotsStable
  /\ [][pathIdx' = pathIdx =>
          \A sym \in DOMAIN vistor.symbolNames : \A ns \in TSNamespace :
            Filled(sym, ns) =>
              /\ sym \in DOMAIN vistor'.symbolNames
              /\ vistor'.symbolNames[sym][ns] = Slot(sym, ns)]_vars

\* C5 witness: a symbol declared in a free-standing block was named at its
\* declaration (one token issued) and then looked up again at a use, which
\* emitted a ref edge to the memoized VName and issued no further token.
MemoWriteOnceWitness ==
  /\ Filled("blocks.a", VALUE)
  /\ Slot("blocks.a", VALUE).signature = "f.block0.a"
  /\ vistor.anonId = 1
  /\ \E i \in 1..Len(sink) :
       IsEdgeOfKind(sink[i], "ref") /\ sink[i].target = Slot("blocks.a", VALUE)

\* The Error of getSymbolName for a symbol without declarations.
NoDeclarations == "TODO: symbol has no declarations?"

Range(s) == {s[i] : i \in 1..Len(s)}

\* C6 as stated: when getSymbolName fails on a symbol without declarations,
\* no entry of the file being indexed has been delivered to the sink.
AbortEmitsNothing ==
  (pc = "error" /\ error = NoDeclarations) => PassEntries(pathIdx) = <<>>

\* C6 amended: when getSymbolName fails on a symbol without declarations,
\* index() has failed with that Error, no call is pending and no step follows
\* (nothing more is delivered, no later path is indexed); the entries emitted
\* before the failure stay delivered, the two facts of the file node first.
AbortKeepsEmitted ==
  (pc = "error" /\ error = NoDeclarations) =>
    /\ stack = <<>>
    /\ ~ENABLED Next
    /\ Len(PassEntries(pathIdx)) >= 2
    /\ IsFact(PassEntries(pathIdx)[1], "node/kind")
    /\ PassEntries(pathIdx)[1].source = vistor.kFile
    /\ PassEntries(pathIdx)[1].fact_value = Base64(Utf8["file"])
    /\ IsFact(PassEntries(pathIdx)[2], "text")
    /\ PassEntries(pathIdx)[2].source = vistor.kFile

\* C6 witness: the pass over undeclared.ts failed at `typeof undefined` after
\* it had emitted the file facts and the entries of the earlier statements,
\* and the second requested path was never begun.
AbortKeepsEmittedWitness ==
  /\ pc = "error" /\ error = NoDeclarations
  /\ Len(paths) = 2 /\ pathIdx = 1
  /\ Len(PassEntries(1)) > 2
  /\ \E i \in 1..Len(sink) : IsFact(sink[i], "node/kind") /\ sink[i].source.signature = "u"

\* C7: after a completed pass, every ref edge of the pass whose target lies in
\* the file of the pass has a node/kind fact on exactly that target VName
\* among the entries of the pass.
NoOrphanRefs ==
  \A i \in 1..Len(passStart) :
    PassComplete(i) =>
      \A e \in Range(PassEntries(i)) :
        (IsEdgeOfKind(e, "ref") /\ e.target.path = PassEntries(i)[1].source.path)
          => \E d \in Range(PassEntries(i)) :
               IsFact(d, "node/kind") /\ d.source = e.target

\* A free-standing block: a Block that is not the body of a function or method.
FreeBlock(node) ==
  /\ Nodes[node].kind = "Block"
  /\ ~(Nodes[node].parent # Undefined
       /\ Nodes[Nodes[node].parent].kind \in {"FunctionDeclaration", "MethodDeclaration"})

\* A declaration of a scope kind without a simple identifier name.
AnonymousDeclaration(node) ==
  /\ Nodes[node].kind \in ScopeKinds
  /\ ~(Nodes[node].name # Undefined /\ Nodes[Nodes[node].name].kind = "Identifier")

\* The number of anonymous scopes among node and its ancestors: the number of
\* synthesized tokens in a signature computed for node.
RECURSIVE AnonymousScopes(_)
AnonymousScopes(node) ==
  IF node = Undefined THEN 0
  ELSE (IF FreeBlock(node) \/ AnonymousDeclaration(node) THEN 1 ELSE 0)
       + AnonymousScopes(Nodes[node].parent)

\* The signature getSymbolName(sym, ns) computes when anonId is k.
SignatureFrom(k, sym, ns) ==
  scopedSignature(k, FirstDeclaration(sym)).sig \o (IF ns = TYPE THEN "#type" ELSE "")

\* The counter values the slot (sym, ns) can have been computed from.
IssuedFrom(sym, ns) ==
  {k \in 0..vistor.anonId : SignatureFrom(k, sym, ns) = Slot(sym, ns).signature}

\* The numbers N of the block<N> and anon<N> tokens in the signature of the
\* filled slot (sym, ns).
TokenNumbers(sym, ns) ==
  IF AnonymousScopes(FirstDeclaration(sym)) = 0 THEN {}
  ELSE LET k == CHOOSE k \in IssuedFrom(sym, ns) : TRUE
       IN k..(k + AnonymousScopes(FirstDeclaration(sym)) - 1)

FilledSlots ==
  {x \in (DOMAIN vistor.symbolNames) \X TSNamespace : Filled(x[1], x[2])}

\* In the current pass: every token of a memoized signature has a number below
\* the counter, no number is in two signatures, and every number below the
\* counter was issued.
TokensUnique ==
  /\ \A x \in FilledSlots :
       AnonymousScopes(FirstDeclaration(x[1])) > 0 =>
         /\ Cardinality(IssuedFrom(x[1], x[2])) = 1
         /\ TokenNumbers(x[1], x[2]) \subseteq 0..(vistor.anonId - 1)
  /\ \A x, y \in FilledSlots :
       x # y => TokenNumbers(x[1], x[2]) \cap TokenNumbers(y[1], y[2]) = {}
  /\ UNION {TokenNumbers(x[1], x[2]) : x \in FilledSlots} = 0..(vistor.anonId - 1)

\* C8: synthesized tokens are unique and increasing within a pass.  The
\* counter never decreases; the numbers of the tokens in memoized signatures
\* are pairwise distinct and below the counter; and a slot filled by a step
\* carries exactly numbers the counter passed in that step, so that a token
\* issued later in the traversal has a larger number than every earlier one.
TokensUniqueIncreasing ==
  /\ []TokensUnique
  /\ [][pathIdx' = pathIdx =>
          /\ vistor'.anonId >= vistor.anonId
          /\ \A x \in FilledSlots' \ FilledSlots :
               TokenNumbers(x[1], x[2])' \subseteq vistor.anonId..(vistor'.anonId - 1)]_vars

\* C8 witness: in blocks.ts the declarations in the two sibling blocks of f
\* got block0 and block1, in traversal order.
TokensUniqueIncreasingWitness ==
  /\ Filled("blocks.a", VALUE) /\ Filled("blocks.b", VALUE)
  /\ Slot("blocks.a", VALUE).signature = "f.block0.a"
  /\ Slot("blocks.b", VALUE).signature = "f.block1.b"
  /\ TokenNumbers("blocks.a", VALUE) = {0}
  /\ TokenNumbers("blocks.b", VALUE) = {1}
  /\ vistor.anonId = 2

\* The root of the tree node n is in.
RECURSIVE SourceFileOf(_)
SourceFileOf(n) ==
  IF Nodes[n].parent = Undefined THEN n ELSE SourceFileOf(Nodes[n].parent)

\* The nodes of the file being indexed.
FileNodes == {n \in DOMAIN Nodes : SourceFileOf(n) = vistor.sourceFile}

VNameFields == {"signature", "path", "language", "root", "corpus"}

\* C9: anchor identity is structural.  Whenever a file is being indexed, for
\* any two of its nodes newAnchor returns different VNames if their spans
\* differ and VNames equal in all five fields if their spans are the same,
\* also when called a second time on the same node; and the last entry every
\* call emits is the childof edge from the returned VName to the file's
\* VName.  Every anchor that is the source of a ref or defines/binding edge
\* in the sink has its childof edge to the file earlier in the sink.
AnchorsStructural ==
  (pathIdx >= 1 /\ pc = "indexing") =>
    /\ \A a, b \in FileNodes :
         LET ra == newAnchor(Machine(vistor, sink), a)
             rb == newAnchor(ra.m, b)
         IN /\ DOMAIN ra.ret = VNameFields /\ DOMAIN rb.ret = VNameFields
            /\ (<<Nodes[a].start, Nodes[a].end>> # <<Nodes[b].start, Nodes[b].end>>
                  => ra.ret # rb.ret)
            /\ (<<Nodes[a].pos, Nodes[a].end>> = <<Nodes[b].pos, Nodes[b].end>>
                  => \A f \in VNameFields : ra.ret[f] = rb.ret[f])
            /\ Len(ra.m.sink) = Len(sink) + 4
            /\ SubSeq(ra.m.sink, 1, Len(sink)) = sink
            /\ IsEdgeOfKind(ra.m.sink[Len(sink) + 4], "childof")
            /\ ra.m.sink[Len(sink) + 4].source = ra.ret
            /\ ra.m.sink[Len(sink) + 4].target = vistor.kFile
            /\ IsEdgeOfKind(rb.m.sink[Len(sink) + 8], "childof")
            /\ rb.m.sink[Len(sink) + 8].source = rb.ret
            /\ rb.m.sink[Len(sink) + 8].target = vistor.kFile
    /\ \A i \in (passStart[pathIdx] + 1)..Len(sink) :
         (IsEdgeOfKind(sink[i], "ref") \/ IsEdgeOfKind(sink[i], "defines/binding"))
           => \E j \in (passStart[pathIdx] + 1)..(i - 1) :
                /\ IsEdgeOfKind(sink[j], "childof")
                /\ sink[j].source = sink[i].source
                /\ sink[j].target = vistor.kFile

\* C9 witness: the pass over nested.ts is complete; the file has two nodes
\* with the same start and different ends, two distinct nodes with the same
\* span, and the anchors of the name f and of the use of a have been emitted
\* with their childof edges.
AnchorsStructuralWitness ==
  /\ pathIdx >= 1 /\ pc = "indexing" /\ stack = <<>>
  /\ paths[pathIdx] = "nested.ts"
  /\ \E a, b \in FileNodes :
       /\ Nodes[a].pos = Nodes[b].pos /\ Nodes[a].start = Nodes[b].start
       /\ Nodes[a].end # Nodes[b].end
  /\ \E a, b \in FileNodes :
       a # b /\ Nodes[a].pos = Nodes[b].pos /\ Nodes[a].end = Nodes[b].end
  /\ \E i, j \in (passStart[pathIdx] + 1)..Len(sink) :
       /\ IsEdgeOfKind(sink[i], "childof") /\ IsEdgeOfKind(sink[j], "childof")
       /\ sink[i].target = vistor.kFile /\ sink[j].target = vistor.kFile
       /\ sink[i].source # sink[j].source
       /\ \E k \in (i + 1)..Len(sink) :
            IsEdgeOfKind(sink[k], "defines/binding") /\ sink[k].source = sink[i].source
       /\ \E k \in (j + 1)..Len(sink) :
            IsEdgeOfKind(sink[k], "ref") /\ sink[k].source = sink[j].source

\* Node n lies in the subtree of node top.
RECURSIVE Within(_, _)
Within(n, top) ==
  IF n = top THEN TRUE
  ELSE IF Nodes[n].parent = Undefined THEN FALSE
  ELSE Within(Nodes[n].parent, top)

\* Node n lies in a type annotation.
RECURSIVE InType(_)
InType(n) ==
  IF Nodes[n].parent = Undefined THEN FALSE
  ELSE Nodes[Nodes[n].parent].type = n \/ InType(Nodes[n].parent)

\* The value-position uses of symbol sym in the subtree of node top: its
\* identifiers that are not the name of a declaration and not in a type.
ValueUses(sym, top) ==
  {n \in FileNodes :
     /\ Nodes[n].kind = "Identifier" /\ Nodes[n].sym = sym
     /\ Within(n, top)
     /\ Nodes[Nodes[n].parent].name # n
     /\ ~InType(n)}

\* The function and method declarations of the file being indexed that have
\* a name and whose parameters all have simple names.
NamedFunctions ==
  {f \in FileNodes :
     /\ Nodes[f].kind \in {"FunctionDeclaration", "MethodDeclaration"}
     /\ Nodes[f].name # Undefined
     /\ \A i \in 1..Len(Nodes[f].parameters) :
          Nodes[Nodes[Nodes[f].parameters[i]].name].kind = "Identifier"}

\* The VName newAnchor returns for node.
AnchorOf(node) ==
  newVName(Machine(vistor, sink), AnchorSignature(Nodes[node].pos, Nodes[node].end),
           vistor.sourceFile)

HasNodeKind(entries, source, kind) ==
  \E e \in Range(entries) :
    IsFact(e, "node/kind") /\ e.source = source /\ e.fact_value = Base64(Utf8[kind])

HasEdge(entries, source, kind, target) ==
  \E e \in Range(entries) :
    IsEdgeOfKind(e, kind) /\ e.source = source /\ e.target = target

\* What C10 requires of the entries of a pass for the function f.
FunctionEmitted(entries, f) ==
  LET fsym == Nodes[Nodes[f].name].sym
  IN /\ Filled(fsym, VALUE)
     /\ HasNodeKind(entries, Slot(fsym, VALUE), "function")
     /\ HasEdge(entries, AnchorOf(Nodes[f].name), "defines/binding", Slot(fsym, VALUE))
     /\ \A i \in 1..Len(Nodes[f].parameters) :
          LET pname == Nodes[Nodes[f].parameters[i]].name
              psym == Nodes[pname].sym
          IN /\ Filled(psym, VALUE)
             /\ HasNodeKind(entries, Slot(psym, VALUE), "variable")
             /\ HasEdge(entries, Slot(fsym, VALUE), "param." \o ToString(i - 1),
                        Slot(psym, VALUE))
             /\ HasEdge(entries, AnchorOf(pname), "defines/binding", Slot(psym, VALUE))
             /\ Nodes[f].body # Undefined =>
                  \A u \in ValueUses(psym, Nodes[f].body) :
                    HasEdge(entries, AnchorOf(u), "ref", Slot(psym, VALUE))

\* C10: when the pass over a file is complete, every named function or method
\* of the file with simply named parameters has its function fact and
\* defines/binding edge, for every parameter the variable fact, the param.i
\* edge and the defines/binding edge, and for every value-position use of a
\* parameter in the body a ref edge from the anchor of the use to the VName
\* of the parameter.
FunctionsFullyEmitted ==
  (pathIdx >= 1 /\ pc = "indexing" /\ stack = <<>>) =>
    \A f \in NamedFunctions : FunctionEmitted(PassEntries(pathIdx), f)

\* The type-alias declarations of the file being indexed.
TypeAliases == {d \in FileNodes : Nodes[d].kind = "TypeAliasDeclaration"}

\* The identifiers in the aliased type of the type-alias declaration d.
AliasedIdentifiers(d) ==
  {n \in FileNodes : Nodes[n].kind = "Identifier" /\ Within(n, Nodes[d].type)}

\* The positions in entries of the ref edges from the anchor of node n.
RefsFrom(entries, n) ==
  {i \in 1..Len(entries) :
     IsEdgeOfKind(entries[i], "ref") /\ entries[i].source = AnchorOf(n)}

\* What C11 requires of the entries of a completed pass for the alias d.
AliasEmitted(entries, d) ==
  LET sym == Nodes[Nodes[d].name].sym
  IN /\ Filled(sym, TYPE)
     /\ \E k \in 0..vistor.anonId :
          Slot(sym, TYPE).signature = scopedSignature(k, d).sig \o "#type"
     /\ HasNodeKind(entries, Slot(sym, TYPE), "alias")
     /\ HasEdge(entries, AnchorOf(Nodes[d].name), "defines/binding", Slot(sym, TYPE))
     /\ \A n \in AliasedIdentifiers(d) :
          /\ Cardinality(RefsFrom(entries, n)) = 1
          /\ Filled(Nodes[n].sym, TYPE)
          /\ \A i \in RefsFrom(entries, n) :
               entries[i].target = Slot(Nodes[n].sym, TYPE)

\* A step of the type dispatch on an identifier: five entries are emitted, the
\* anchor's four and then the ref edge from the anchor to the TYPE VName of
\* the identifier's symbol, and no call is added.
TypeIdentifierStep ==
  LET n == Head(stack).node
  IN /\ Len(sink') = Len(sink) + 5
     /\ SubSeq(sink', 1, Len(sink)) = sink
     /\ IsFact(sink'[Len(sink) + 1], "node/kind")
     /\ sink'[Len(sink) + 1].source = AnchorOf(n)
     /\ IsEdgeOfKind(sink'[Len(sink) + 5], "ref")
     /\ sink'[Len(sink) + 5].source = AnchorOf(n)
     /\ Nodes[n].sym \in DOMAIN vistor'.symbolNames
     /\ sink'[Len(sink) + 5].target = vistor'.symbolNames[Nodes[n].sym][TYPE]
     /\ stack' = Tail(stack)

\* A step of the type dispatch on any other node: nothing is emitted and the
\* children are visited in type dispatch, in order.
TypeRecursionStep ==
  LET n == Head(stack).node
  IN /\ sink' = sink
     /\ stack' = [i \in 1..Len(Nodes[n].children) |->
                    [node |-> Nodes[n].children[i], mode |-> "visitType"]]
                 \o Tail(stack)

\* After a completed pass every type alias of the file has been emitted.
AliasesEmitted ==
  (pathIdx >= 1 /\ pc = "indexing" /\ stack = <<>>)
    => \A d \in TypeAliases : AliasEmitted(PassEntries(pathIdx), d)

\* What a step of a pass does when the pending call is the visit of a type
\* alias or a call of the type dispatch.
TypeDispatchStep ==
  (pc = "indexing" /\ stack # <<>>) =>
    /\ (Head(stack).mode = "visit"
        /\ Nodes[Head(stack).node].kind = "TypeAliasDeclaration")
         => (stack' # <<>>
             /\ Head(stack') = [node |-> Nodes[Head(stack).node].type,
                                mode |-> "visitType"])
    /\ (Head(stack).mode = "visitType"
        /\ Nodes[Head(stack).node].kind = "Identifier")
         => TypeIdentifierStep
    /\ (Head(stack).mode = "visitType"
        /\ Nodes[Head(stack).node].kind # "Identifier")
         => TypeRecursionStep

\* C11: a type alias emits its alias fact on its TYPE VName (with the #type
\* suffix) and the defines/binding edge from the anchor of its name, and the
\* aliased type is visited in type dispatch next; in type dispatch every
\* identifier reached emits exactly one ref edge from a new anchor to the TYPE
\* VName of its symbol, every other node only passes the type dispatch on to
\* its children; so after a completed pass every identifier in an aliased type
\* has exactly one ref edge, to a TYPE VName.
TypeDispatch == []AliasesEmitted /\ [][TypeDispatchStep]_vars

\* node and its ancestors, innermost first.
RECURSIVE AncestorChain(_)
AncestorChain(node) ==
  IF node = Undefined THEN <<>>
  ELSE <<node>> \o AncestorChain(Nodes[node].parent)

\* The ancestors of decl (decl included), innermost first, that contribute a
\* token: the free-standing blocks and the declarations of the named kinds.
ScopeAncestors(decl) ==
  SelectSeq(AncestorChain(decl),
            LAMBDA n : FreeBlock(n) \/ Nodes[n].kind \in NamedKinds)

HasSimpleName(n) ==
  Nodes[n].name # Undefined /\ Nodes[Nodes[n].name].kind = "Identifier"

\* The positions of scopes whose token is synthesized.
Synthesized(scopes) ==
  {j \in 1..Len(scopes) : FreeBlock(scopes[j]) \/ ~HasSimpleName(scopes[j])}

\* The token of scopes[i] when the counter is k at the start of the walk.
ScopeToken(scopes, i, k) ==
  LET n == k + Cardinality({j \in Synthesized(scopes) : j < i})
  IN IF FreeBlock(scopes[i]) THEN "block" \o ToString(n)
     ELSE IF HasSimpleName(scopes[i]) THEN Nodes[Nodes[scopes[i]].name].text
     ELSE "anon" \o ToString(n)

\* The declaration nodes of the file being indexed.
DeclarationNodes ==
  {d \in FileNodes : \E s \in DOMAIN Symbols : d \in Range(Symbols[s].declarations)}

\* C12: for every declaration of the file being indexed and the counter of the
\* pass, scopedSignature returns the tokens of the free-standing blocks and of
\* the declarations of the named kinds (type aliases among them) on the
\* ancestor chain, outermost first and joined by '.': the declared name, or
\* anon<N> without a simple name, block<N> for a free-standing block, nothing
\* for any other ancestor; with it the source file of the declaration; and the
\* counter is left advanced by one per synthesized token.
SignatureOfScopes ==
  (pathIdx >= 1 /\ vistor.sourceFile # Undefined) =>
    \A decl \in DeclarationNodes :
      LET scopes == ScopeAncestors(decl)
          r == scopedSignature(vistor.anonId, decl)
      IN /\ r.sig = Join(Reverse([i \in 1..Len(scopes) |->
                                    ScopeToken(scopes, i, vistor.anonId)]), ".")
         /\ r.sourceFile = SourceFileOf(decl)
         /\ r.anonId = vistor.anonId + Cardinality(Synthesized(scopes))

\* The anonymous scopes among decl and its ancestors: the nodes for which
\* scopedSignature synthesizes a token.
AnonymousAncestors(decl) ==
  {n \in Range(AncestorChain(decl)) : FreeBlock(n) \/ AnonymousDeclaration(n)}

\* The number N of the token that stands for the anonymous scope `scope` in
\* the signature of the filled slot (sym, ns).
TokenNumberOf(sym, ns, scope) ==
  LET k == CHOOSE k \in IssuedFrom(sym, ns) : TRUE
      inner == {n \in AnonymousAncestors(FirstDeclaration(sym)) :
                  n # scope /\ Within(n, scope)}
  IN k + Cardinality(inner)

\* C13: the token of an anonymous scope is a function of the scope.  In a
\* pass the counter never exceeds the number of anonymous scopes of the file,
\* and any two symbols declared under the same free-standing block or unnamed
\* declaration carry the same token number for that scope in their memoized
\* signatures.
TokenPerScope ==
  pathIdx >= 1 /\ vistor.sourceFile # Undefined =>
    /\ vistor.anonId <=
         Cardinality({n \in FileNodes : FreeBlock(n) \/ AnonymousDeclaration(n)})
    /\ \A x, y \in FilledSlots :
         x[1] # y[1] =>
           \A scope \in AnonymousAncestors(FirstDeclaration(x[1]))
                          \cap AnonymousAncestors(FirstDeclaration(y[1])) :
             TokenNumberOf(x[1], x[2], scope) = TokenNumberOf(y[1], y[2], scope)

====
